---- MODULE Spec2Model ----
(***************************************************************************)
(* The game_sendupdates RPC and its SendUpdatesWorker (src/rpc/game.cpp,   *)
(* src/rpc/game.h), built with ENABLE_ZMQ.                                 *)
(*                                                                         *)
(* RPC threads run game_sendupdates: they resolve the two block hashes,    *)
(* walk from each block index to the last common ancestor (one cs_main     *)
(* critical section per visited block), and hand a Work item to the        *)
(* worker.  The worker thread pops items under csWork and sends one        *)
(* notification per block outside the lock.  The init thread interrupts    *)
(* the worker.  The node changes BLOCK_HAVE_DATA flags concurrently.       *)
(***************************************************************************)
EXTENDS Naturals, Integers, Sequences, FiniteSets, TLC

\* ---------------------------------------------------------------- bounds
NumBlocks == 5      \* block indices in the block map
MaxCalls == 2       \* game_sendupdates calls started in one behaviour
MaxFlips == 1       \* changes of a BLOCK_HAVE_DATA flag in one behaviour

\* ------------------------------------------------------------ the values
Null == 0                          \* nullptr
Blocks == 1..NumBlocks             \* const CBlockIndex*, non-null
UnknownHash == NumBlocks + 1       \* a hash LookupBlockIndex does not know
Hashes == Blocks \cup {UnknownHash}
Threads == {"rpc1", "rpc2"}        \* the RPC threads
Games == {"huc"}                   \* request.params[0]
Tokens == {"t1", "t2"}             \* values of HexStr (tokenBin)
Free == "free"                     \* csWork is not held
Runner == "runner"                 \* the worker thread
Main == "main"                     \* the init thread
PREFIX_DETACH == "detach"
PREFIX_ATTACH == "attach"

VARIABLES
  pprev,        \* CBlockIndex::pprev of every block index (Null at genesis)
  haveData,     \* nStatus & BLOCK_HAVE_DATA of every block index
  notifier,     \* what GetGameBlocksNotifier finds
  tracked,      \* the notifier's tracked games (GetTrackedGames)
  work,         \* SendUpdatesWorker::work, the std::queue<Work>
  interrupted,  \* SendUpdatesWorker::interrupted
  csWork,       \* holder of the mutex SendUpdatesWorker::csWork
  cvWork,       \* threads blocked in cvWork.wait and not yet notified
  runner,       \* the worker thread: position in run, popped Work, next send
  rpc,          \* the RPC threads: position in game_sendupdates and locals
  main,         \* the init thread's position in interrupt ()
  requests,     \* the <<fromblock, toblock>> pairs clients ask for
  randTokens,   \* the tokens GetRandBytes produces in this behaviour
  nextId,       \* history: number of the next game_sendupdates call
  callsLeft,    \* calls that may still start in this behaviour
  flipsLeft,    \* flag changes that may still happen in this behaviour
  asked,        \* history: the <<fromblock, toblock>> of each call
  result,       \* history: what each call returned or threw
  built,        \* history: the Work each call handed to enqueue
  accepted,     \* history: calls whose Work was pushed, in push order
  dropped,      \* history: calls whose Work enqueue dropped
  processed,    \* history: calls whose Work the worker finished, in order
  sendlog       \* history: every SendUpdatesOneBlock call, in order

vars == <<pprev, haveData, notifier, tracked, work, interrupted, csWork, cvWork,
          runner, rpc, main, requests, randTokens, nextId, callsLeft, flipsLeft, asked, result, built, accepted, dropped,
          processed, sendlog>>

chainVars == <<pprev, notifier, tracked, requests, randTokens>>
workerVars == <<work, interrupted, csWork, cvWork, runner, main>>
budgetVars == <<nextId, callsLeft, flipsLeft>>
histVars == <<asked, result, built, accepted, dropped, processed, sendlog>>

\* ------------------------------------------------------------- the chain
\* The block trees over Blocks rooted at block 1: every other block's parent
\* was created before it.
AllTrees ==
  { f \in [Blocks -> Blocks \cup {Null}] :
      /\ f[1] = Null
      /\ \A b \in Blocks \ {1} : f[b] \in 1..(b - 1) }

\* The chain of the reorg example, from its block A on: A(1) - B(2) - C(3)
\* with the branch B - D(4) - E(5) - ...
ForkTree ==
  [b \in Blocks |-> IF b = 1 THEN Null ELSE IF b = 4 THEN 2 ELSE b - 1]

RECURSIVE Height(_)
Height(b) == IF pprev[b] = Null THEN 0 ELSE 1 + Height(pprev[b])

RECURSIVE Ancestors(_)
Ancestors(b) == IF b = Null THEN {} ELSE {b} \cup Ancestors(pprev[b])

\* The deepest block index that both a and b descend from (or are).
LastCommonAncestor(a, b) ==
  LET common == Ancestors(a) \cap Ancestors(b)
  IN  IF common = {} THEN Null
      ELSE CHOOSE c \in common : \A d \in common : Height(d) <= Height(c)

LookupBlockIndex(hash) == IF hash \in Blocks THEN hash ELSE Null

\* Mutant of HasData: the BLOCK_HAVE_DATA test is left out.
HasDataAlways(pindex) == TRUE

HasData(pindex) == haveData[pindex]

\* ReadBlockFromDisk: the block is read from disk exactly while its data
\* is there, that is while BLOCK_HAVE_DATA is set (pruning clears it).
ReadBlockFromDisk(pindex) == haveData[pindex]

\* ------------------------------------------------------------ the values
\* A default-constructed Work (id is history: the call that built it).
NoWork ==
  [id |-> 0, reqtoken |-> "", detach |-> <<>>, attach |-> <<>>,
   trackedGames |-> {}]

\* An RPC thread that is not in game_sendupdates.
IdleRpc ==
  [pc |-> "idle", id |-> 0, toBlock |-> Null, fromIndex |-> Null,
   toIndex |-> Null, ancestor |-> Null, pindex |-> Null, checks |-> 0,
   w |-> NoWork]

\* The worker thread at the head of while (true), with no Work in hand.
IdleRunner == [pc |-> "lock", w |-> NoWork, next |-> 1]

NoResult == [code |-> "none"]
NoRequest == <<Null, Null>>

\* Mutant of Reverse: the list is left as the walk collected it.
RECURSIVE ReverseNot(_)
ReverseNot(s) == IF s = <<>> THEN <<>> ELSE <<Head(s)>> \o ReverseNot(Tail(s))

\* std::reverse
RECURSIVE Reverse(_)
Reverse(s) == IF s = <<>> THEN <<>> ELSE Append(Reverse(Tail(s)), Head(s))

\* An assert of game_sendupdates failed, or an exception left the worker
\* thread: the process is gone.  After the destructor the worker is gone.
Aborted == \E t \in Threads : rpc[t].pc = "abort"
Alive == ~Aborted /\ runner.pc # "terminate" /\ main # "destroyed"

\* ------------------------------------------------------ game_sendupdates
\* Mutant of LoopCond: the walk has no end test.
LoopCondNoEnd(pindex, ancestor) == TRUE

\* Mutant of LoopCond: the walk stops one block late, after the ancestor.
LoopCondPastAncestor(pindex, ancestor) == pindex # pprev[ancestor]

\* The loop condition of GetDetachSequence (line 194).
LoopCond(pindex, ancestor) == pindex # ancestor

\* Mutant of Settle: each walk is a do-while, its loop condition is first
\* tested after one loop body.
SettleDoWhile(r) ==
  LET a == IF /\ r.pc = "detach" /\ r.w.detach # <<>>
              /\ ~LoopCond(r.pindex, r.ancestor)
             THEN [r EXCEPT !.pc = "attach", !.pindex = r.toIndex]
             ELSE r
  IN  IF /\ a.pc = "attach" /\ a.w.attach # <<>>
         /\ ~LoopCond(a.pindex, a.ancestor)
        THEN [a EXCEPT !.pc = "result", !.pindex = Null,
                       !.w.attach = Reverse(a.w.attach)]
        ELSE a

\* The control of lines 285-287 between two loop bodies: a walk whose
\* pindex has reached the ancestor is over, the next one starts at toIndex,
\* and after both the attach list is reversed.
Settle(r) ==
  LET a == IF r.pc = "detach" /\ ~LoopCond(r.pindex, r.ancestor)
             THEN [r EXCEPT !.pc = "attach", !.pindex = r.toIndex]
             ELSE r
  IN  IF a.pc = "attach" /\ ~LoopCond(a.pindex, a.ancestor)
        THEN [a EXCEPT !.pc = "result", !.pindex = Null,
                       !.w.attach = Reverse(a.w.attach)]
        ELSE a

\* throw JSONRPCError (code, ...) in the call of thread t.
Throw(t, code) ==
  /\ rpc' = [rpc EXCEPT ![t] = IdleRpc]
  /\ result' = [result EXCEPT ![rpc[t].id] = [code |-> code]]

\* Lines 243-285: the parameters, the request token, the two lookups and
\* their flag checks under cs_main, the common ancestor, and the loop
\* condition of the first walk.  An omitted toblock is chainActive.Tip (),
\* some known block.
RpcBegin(t) ==
  /\ Alive
  /\ rpc[t].pc = "idle"
  /\ callsLeft > 0
  /\ \E gameid \in Games, req \in requests, reqtoken \in randTokens :
       LET fromBlock == req[1]
           toBlock == req[2]
           fromIndex == LookupBlockIndex(fromBlock)
           toIndex == LookupBlockIndex(toBlock)
           fail(code) ==
             /\ rpc' = rpc
             /\ result' = [result EXCEPT ![nextId] = [code |-> code]]
       IN  /\ asked' = [asked EXCEPT ![nextId] = req]
           /\ IF fromIndex = Null \/ toIndex = Null
                THEN fail("RPC_INVALID_ADDRESS_OR_KEY")
              ELSE IF ~HasData(fromIndex) \/ ~HasData(toIndex)
                THEN fail("RPC_DATABASE_ERROR")
              ELSE LET ancestor == LastCommonAncestor(fromIndex, toIndex)
                       r == [pc |-> "detach", id |-> nextId,
                             toBlock |-> toBlock, fromIndex |-> fromIndex,
                             toIndex |-> toIndex, ancestor |-> ancestor,
                             pindex |-> fromIndex, checks |-> 0,
                             w |-> [NoWork EXCEPT
                                      !.id = nextId,
                                      !.reqtoken = reqtoken,
                                      !.trackedGames = {gameid}]]
                   IN  /\ rpc' = [rpc EXCEPT ![t] =
                                    IF ancestor = Null
                                      THEN [r EXCEPT !.pc = "abort"]
                                      ELSE Settle(r)]
                       /\ result' = result
  /\ nextId' = nextId + 1
  /\ callsLeft' = callsLeft - 1
  /\ UNCHANGED <<chainVars, haveData, workerVars, flipsLeft, built,
                 accepted, dropped, processed, sendlog>>

\* One loop body of GetDetachSequence (lines 197-203) under cs_main, in the
\* walk that fills w.detach or w.attach: the assert, the flag check, the
\* push_back; then pindex = pindex->pprev and the loop condition.
RpcWalkStep(t) ==
  LET r == rpc[t]
  IN  /\ Alive
      /\ r.pc \in {"detach", "attach"}
      /\ IF r.pindex = Null
           THEN /\ rpc' = [rpc EXCEPT ![t].pc = "abort"]
                /\ result' = result
         ELSE IF ~HasData(r.pindex)
           THEN Throw(t, "RPC_DATABASE_ERROR")
         ELSE /\ rpc' = [rpc EXCEPT ![t] =
                    Settle([r EXCEPT !.w[r.pc] = Append(r.w[r.pc], r.pindex),
                                     !.pindex = pprev[r.pindex],
                                     !.checks = r.checks + 1])]
              /\ result' = result
      /\ UNCHANGED <<chainVars, haveData, workerVars, budgetVars, asked,
                     built, accepted, dropped, processed, sendlog>>

\* Mutant of Result: the two step counts change places.
ResultSwapped(r) ==
  [code |-> "ok", toblock |-> r.toBlock, ancestor |-> r.ancestor,
   reqtoken |-> r.w.reqtoken,
   steps |-> [detach |-> Len(r.w.attach), attach |-> Len(r.w.detach)]]

\* The reply built at lines 289-296.
Result(r) ==
  [code |-> "ok", toblock |-> r.toBlock, ancestor |-> r.ancestor,
   reqtoken |-> r.w.reqtoken,
   steps |-> [detach |-> Len(r.w.detach), attach |-> Len(r.w.attach)]]

\* Mutant of NotifierAvailable: the notifier is not looked for.
NotifierNotChecked == TRUE

\* GetGameBlocksNotifier (lines 27-38): whether it returns a notifier
\* rather than throwing.
NotifierAvailable == notifier = "ok"

\* Lines 289-300: the reply is built and GetGameBlocksNotifier checks that
\* a notifier is configured.
RpcResult(t) ==
  /\ Alive
  /\ rpc[t].pc = "result"
  /\ IF NotifierAvailable
       THEN /\ rpc' = [rpc EXCEPT ![t].pc = "enqueue"]
            /\ result' = result
       ELSE Throw(t, "RPC_MISC_ERROR")
  /\ UNCHANGED <<chainVars, haveData, workerVars, budgetVars, asked, built,
                 accepted, dropped, processed, sendlog>>

\* ------------------------------------------- SendUpdatesWorker::enqueue
\* WAIT_LOCK (csWork, lock) at line 169, in the call at line 301.
RpcEnqueueLock(t) ==
  /\ Alive
  /\ rpc[t].pc = "enqueue"
  /\ csWork = Free
  /\ csWork' = t
  /\ rpc' = [rpc EXCEPT ![t].pc = "enqueueLocked"]
  /\ UNCHANGED <<chainVars, haveData, work, interrupted, cvWork, runner,
                 main, budgetVars, histVars>>

\* Mutant of NotifyAll: nobody is woken.
NotifyNone(waiting) == waiting

\* cvWork.notify_all () (lines 163, 180): no waiter stays un-notified.
NotifyAll(waiting) == {}

\* Mutant of EnqueueAccepts: an item is also taken after interrupt () when
\* the queue is empty.
EnqueueAcceptsWhenEmpty == ~interrupted \/ work = <<>>

\* Mutant of EnqueueAccepts: the interrupted flag is not tested.
EnqueueAlways == TRUE

\* Whether enqueue pushes the item (the test at line 171).
EnqueueAccepts == ~interrupted

\* Mutant of QueuePush: the item is pushed twice.
QueuePushTwice(q, w) == Append(Append(q, w), w)

\* Mutant of QueuePush: the item is put at the front of the queue.
QueuePushFront(q, w) == <<w>> \o q

\* work.push (line 179).
QueuePush(q, w) == Append(q, w)

\* Lines 171-181 under the lock, then the return of the reply (line 303).
RpcEnqueue(t) ==
  /\ Alive
  /\ rpc[t].pc = "enqueueLocked"
  /\ csWork = t
  /\ IF EnqueueAccepts
       THEN /\ work' = QueuePush(work, rpc[t].w)
            /\ cvWork' = NotifyAll(cvWork)
            /\ accepted' = Append(accepted, rpc[t].id)
            /\ dropped' = dropped
       ELSE /\ dropped' = dropped \cup {rpc[t].id}
            /\ UNCHANGED <<work, cvWork, accepted>>
  /\ csWork' = Free
  /\ built' = [built EXCEPT ![rpc[t].id] = rpc[t].w]
  /\ result' = [result EXCEPT ![rpc[t].id] = Result(rpc[t])]
  /\ rpc' = [rpc EXCEPT ![t] = IdleRpc]
  /\ UNCHANGED <<chainVars, haveData, interrupted, runner, main, budgetVars,
                 asked, processed, sendlog>>

\* ----------------------------------------- SendUpdatesWorker::interrupt
\* WAIT_LOCK (csWork, lock) at line 161.
InterruptLock ==
  /\ Alive
  /\ main = "idle"
  /\ csWork = Free
  /\ csWork' = Main
  /\ main' = "interruptLocked"
  /\ UNCHANGED <<chainVars, haveData, work, interrupted, cvWork, runner,
                 rpc, budgetVars, histVars>>

\* Lines 162-164.
Interrupt ==
  /\ Alive
  /\ main = "interruptLocked"
  /\ csWork = Main
  /\ interrupted' = TRUE
  /\ cvWork' = NotifyAll(cvWork)
  /\ csWork' = Free
  /\ main' = "returned"
  /\ UNCHANGED <<chainVars, haveData, work, runner, rpc, budgetVars,
                 histVars>>

\* ----------------------------------------------- SendUpdatesWorker::run
\* WAIT_LOCK (self.csWork, lock) at line 120.
RunLock ==
  /\ Alive
  /\ runner.pc = "lock"
  /\ csWork = Free
  /\ csWork' = Runner
  /\ runner' = [runner EXCEPT !.pc = "locked"]
  /\ UNCHANGED <<chainVars, haveData, work, interrupted, cvWork, rpc, main,
                 budgetVars, histVars>>

\* Mutant of RunDecision: with the queue empty the worker leaves the loop
\* whether interrupted is set or not.
RunDecisionBreakWhenEmpty ==
  IF work = <<>> THEN "break" ELSE "pop"

\* Mutant of RunDecision: interrupted is not tested, the worker waits
\* whenever the queue is empty.
RunDecisionNeverBreak ==
  IF work = <<>> THEN "wait" ELSE "pop"

\* Mutant of RunDecision: interrupted is tested before the queue, so the
\* loop ends with Work still queued.
RunDecisionEager ==
  IF interrupted
    THEN "break"
    ELSE IF work = <<>> THEN "wait" ELSE "pop"

\* What the worker does with the lock held (the tests at lines 122, 128).
RunDecision ==
  IF work = <<>>
    THEN IF interrupted THEN "break" ELSE "wait"
    ELSE "pop"

\* Mutant of Sends: the attach loop runs before the detach loop.
SendsAttachFirst(w) ==
  [i \in 1..Len(w.attach) |->
     [prefix |-> PREFIX_ATTACH, pindex |-> w.attach[i]]]
  \o [i \in 1..Len(w.detach) |->
        [prefix |-> PREFIX_DETACH, pindex |-> w.detach[i]]]

\* The SendUpdatesOneBlock calls of one Work, in the order of the two loops
\* at lines 144-151.
Sends(w) ==
  [i \in 1..Len(w.detach) |->
     [prefix |-> PREFIX_DETACH, pindex |-> w.detach[i]]]
  \o [i \in 1..Len(w.attach) |->
        [prefix |-> PREFIX_ATTACH, pindex |-> w.attach[i]]]

\* The worker with Work w in hand and `next` the next call of Sends(w) to
\* make: when both loops are over (line 152) it is back at the head of
\* while (true).
Processing(w, next) ==
  IF next > Len(Sends(w))
    THEN IdleRunner
    ELSE [pc |-> "send", w |-> w, next |-> next]

\* Mutant of ScopedUnlock: the lock's scope spans the two send loops, so
\* after a pop the worker still holds csWork.
ScopedUnlockAfterSends(decision) ==
  IF decision = "pop" THEN Runner ELSE Free

\* The holder of csWork once the worker has left the scope of `lock`
\* (lines 119-142): by break, by the wait, or at the closing brace after
\* the pop, the lock is released.
ScopedUnlock(decision) == Free

\* Lines 122-142 under the lock: leave the loop, wait, or pop the front.
RunLocked ==
  /\ Alive
  /\ runner.pc = "locked"
  /\ csWork = Runner
  /\ CASE RunDecision = "break" ->
            /\ runner' = [runner EXCEPT !.pc = "done"]
            /\ UNCHANGED <<work, cvWork, processed>>
       [] RunDecision = "wait" ->
            /\ runner' = [runner EXCEPT !.pc = "wait"]
            /\ cvWork' = cvWork \cup {Runner}
            /\ UNCHANGED <<work, processed>>
       [] RunDecision = "pop" ->
            /\ runner' = Processing(Head(work), 1)
            /\ work' = Tail(work)
            /\ processed' = IF Processing(Head(work), 1).pc = "send"
                              THEN processed
                              ELSE Append(processed, Head(work).id)
            /\ cvWork' = cvWork
  /\ csWork' = ScopedUnlock(RunDecision)
  /\ UNCHANGED <<chainVars, haveData, interrupted, rpc, main, budgetVars,
                 asked, result, built, accepted, dropped, sendlog>>

\* cvWork.wait returns (line 133) after a notify_all: the lock is taken
\* again.
RunWake ==
  /\ Alive
  /\ runner.pc = "wait"
  /\ Runner \notin cvWork
  /\ csWork = Free
  /\ csWork' = Runner
  /\ runner' = [runner EXCEPT !.pc = "woken"]
  /\ UNCHANGED <<chainVars, haveData, work, interrupted, cvWork, rpc, main,
                 budgetVars, histVars>>

\* A condition variable may wake its waiter without a notify.
RunSpuriousWake ==
  /\ Alive
  /\ runner.pc = "wait"
  /\ Runner \in cvWork
  /\ cvWork' = cvWork \ {Runner}
  /\ UNCHANGED <<chainVars, haveData, work, interrupted, csWork, runner,
                 rpc, main, budgetVars, histVars>>

\* continue (line 134): the lock's scope ends, the loop starts again.
RunContinue ==
  /\ Alive
  /\ runner.pc = "woken"
  /\ csWork = Runner
  /\ csWork' = Free
  /\ runner' = [runner EXCEPT !.pc = "lock"]
  /\ UNCHANGED <<chainVars, haveData, work, interrupted, cvWork, rpc, main,
                 budgetVars, histVars>>

\* Mutant of Notification: the notification goes to the games the notifier
\* tracks at the time of the send.
NotificationToTracked(w, s, sent) ==
  [id |-> w.id, prefix |-> s.prefix, pindex |-> s.pindex,
   reqtoken |-> w.reqtoken, trackedGames |-> tracked, sent |-> sent]

\* The arguments of SendBlockNotifications (lines 104-105, from the call at
\* lines 145-151): the games and the token of the popped Work, the prefix
\* and the block.  `sent` is history: whether the call was reached.
Notification(w, s, sent) ==
  [id |-> w.id, prefix |-> s.prefix, pindex |-> s.pindex,
   reqtoken |-> w.reqtoken, trackedGames |-> w.trackedGames, sent |-> sent]

\* Mutant of AfterSend: a failed read ends the processing of the Work.
AfterSendAbandonOnFailure(w, next, readOk) ==
  IF readOk THEN Processing(w, next + 1) ELSE IdleRunner

\* Where the worker is after SendUpdatesOneBlock has returned, by its
\* return at line 100 or at its end: at the next iteration of the loops of
\* lines 144-151.
AfterSend(w, next, readOk) == Processing(w, next + 1)

\* SendUpdatesOneBlock (lines 89-106) for the next block of the popped
\* Work: if ReadBlockFromDisk fails the block is ignored, otherwise the
\* notifier is fetched and the notification sent.  A throw of
\* GetGameBlocksNotifier leaves the thread.
RunSend ==
  /\ Alive
  /\ runner.pc = "send"
  /\ LET s == Sends(runner.w)[runner.next]
         readOk == ReadBlockFromDisk(s.pindex)
         entry == Notification(runner.w, s, readOk /\ NotifierAvailable)
         after == AfterSend(runner.w, runner.next, readOk)
     IN  /\ sendlog' = Append(sendlog, entry)
         /\ IF readOk /\ ~NotifierAvailable
              THEN /\ runner' = [runner EXCEPT !.pc = "terminate"]
                   /\ processed' = processed
              ELSE /\ runner' = after
                   /\ processed' = IF after.pc = "send"
                                     THEN processed
                                     ELSE Append(processed, runner.w.id)
  /\ UNCHANGED <<chainVars, haveData, work, interrupted, csWork, cvWork,
                 rpc, main, budgetVars, asked, result, built, accepted,
                 dropped>>

\* --------------------------------------------------------------- the node
\* Another thread of the node sets or clears a block's BLOCK_HAVE_DATA
\* under cs_main (the block's data arrives, or is pruned).
FlipData(b) ==
  /\ Alive
  /\ flipsLeft > 0
  /\ flipsLeft' = flipsLeft - 1
  /\ haveData' = [haveData EXCEPT ![b] = ~haveData[b]]
  /\ UNCHANGED <<chainVars, workerVars, rpc, nextId, callsLeft, histVars>>

\* The game ZMQ interface goes away while the node runs: the notification
\* interface is deleted (n = "disabled") or has no game notifier any more
\* (n = "unset").
TransportLost(n) ==
  /\ Alive
  /\ notifier = "ok"
  /\ n \in {"disabled", "unset"}
  /\ notifier' = n
  /\ UNCHANGED <<pprev, tracked, requests, randTokens, haveData, workerVars,
                 rpc, budgetVars, histVars>>

\* The trackedgames RPC with a command (lines 343-361): the game is added
\* to or removed from the notifier's tracked games.
TrackedGames(cmd, gameid) ==
  /\ Alive
  /\ NotifierAvailable
  /\ tracked' = IF cmd = "add" THEN tracked \cup {gameid}
                               ELSE tracked \ {gameid}
  /\ tracked' # tracked
  /\ UNCHANGED <<pprev, notifier, requests, randTokens, haveData,
                 workerVars, rpc, budgetVars, histVars>>

\* ------------------------------ SendUpdatesWorker::~SendUpdatesWorker
\* Lines 80-81: the init thread, which has or has not called interrupt (),
\* enters runner->join ().
DestructorJoin ==
  /\ Alive
  /\ main \in {"idle", "returned"}
  /\ main' = "join"
  /\ UNCHANGED <<chainVars, haveData, work, interrupted, csWork, cvWork,
                 runner, rpc, budgetVars, histVars>>

\* join returns when the worker thread has returned from run; then
\* runner.reset () (line 82).
DestructorReturn ==
  /\ Alive
  /\ main = "join"
  /\ runner.pc = "done"
  /\ main' = "destroyed"
  /\ UNCHANGED <<chainVars, haveData, work, interrupted, csWork, cvWork,
                 runner, rpc, budgetVars, histVars>>

\* ------------------------------------------------------ the specifications
\* After the SendUpdatesWorker constructor (lines 69-76): the thread is
\* started, the queue is empty, interrupted is false.
InitWorker ==
  /\ work = <<>>
  /\ interrupted = FALSE
  /\ csWork = Free
  /\ cvWork = {}
  /\ runner = IdleRunner
  /\ rpc = [t \in Threads |-> IdleRpc]
  /\ main = "idle"
  /\ nextId = 1
  /\ asked = [i \in 1..MaxCalls |-> NoRequest]
  /\ result = [i \in 1..MaxCalls |-> NoResult]
  /\ built = [i \in 1..MaxCalls |-> NoWork]
  /\ accepted = <<>>
  /\ dropped = {}
  /\ processed = <<>>
  /\ sendlog = <<>>

\* The requests of the concurrent scenario on ForkTree: the reorg from C
\* to E, a request with fromblock = toblock, and an unknown fromblock.
ForkRequests == {<<3, 5>>, <<4, 4>>, <<UnknownHash, 1>>}

\* Producers, worker and interrupt on the chain of the reorg example.
Init ==
  /\ pprev = ForkTree
  /\ haveData = [b \in Blocks |-> TRUE]
  /\ notifier \in {"ok", "disabled", "unset"}
  /\ tracked = {}
  /\ requests = ForkRequests
  /\ randTokens = {"t1"}
  /\ callsLeft = MaxCalls
  /\ flipsLeft = MaxFlips
  /\ InitWorker

Next ==
  \/ \E t \in Threads : RpcBegin(t)
  \/ \E t \in Threads : RpcWalkStep(t)
  \/ \E t \in Threads : RpcResult(t)
  \/ \E t \in Threads : RpcEnqueueLock(t)
  \/ \E t \in Threads : RpcEnqueue(t)
  \/ InterruptLock
  \/ Interrupt
  \/ RunLock
  \/ RunLocked
  \/ RunWake
  \/ RunSpuriousWake
  \/ RunContinue
  \/ RunSend
  \/ \E b \in Blocks : FlipData(b)

Spec == Init /\ [][Next]_vars

\* One request of one RPC thread, for any two hashes, on any block tree,
\* with the worker running and never interrupted.
InitWalk ==
  /\ pprev \in AllTrees
  /\ haveData = [b \in Blocks |-> TRUE]
  /\ notifier = "ok"
  /\ tracked = {}
  /\ requests = Hashes \X Hashes
  /\ randTokens = {"t1"}
  /\ callsLeft = 1
  /\ flipsLeft = MaxFlips
  /\ InitWorker

NextWalk ==
  \/ RpcBegin("rpc1")
  \/ RpcWalkStep("rpc1")
  \/ RpcResult("rpc1")
  \/ RpcEnqueueLock("rpc1")
  \/ RpcEnqueue("rpc1")
  \/ RunLock
  \/ RunLocked
  \/ RunWake
  \/ RunSpuriousWake
  \/ RunContinue
  \/ RunSend
  \/ \E b \in Blocks : FlipData(b)

SpecWalk == InitWalk /\ [][NextWalk]_vars

\* The requests of the scenarios below: the reorg from C to E and a
\* request with fromblock = toblock.
ReorgRequests == {<<3, 5>>, <<4, 4>>}

\* Producers, worker and interrupt while the game ZMQ interface may go
\* away and the tracked games change; block data stays.
InitTransport ==
  /\ pprev = ForkTree
  /\ haveData = [b \in Blocks |-> TRUE]
  /\ notifier = "ok"
  /\ tracked = Games
  /\ requests = ReorgRequests
  /\ randTokens = Tokens
  /\ callsLeft = MaxCalls
  /\ flipsLeft = MaxFlips
  /\ InitWorker

NextTransport ==
  \/ \E t \in Threads : RpcBegin(t)
  \/ \E t \in Threads : RpcWalkStep(t)
  \/ \E t \in Threads : RpcResult(t)
  \/ \E t \in Threads : RpcEnqueueLock(t)
  \/ \E t \in Threads : RpcEnqueue(t)
  \/ InterruptLock
  \/ Interrupt
  \/ RunLock
  \/ RunLocked
  \/ RunWake
  \/ RunSpuriousWake
  \/ RunContinue
  \/ RunSend
  \/ \E n \in {"disabled", "unset"} : TransportLost(n)
  \/ \E cmd \in {"add", "remove"}, gameid \in Games :
       TrackedGames(cmd, gameid)

SpecTransport == InitTransport /\ [][NextTransport]_vars

\* The life of the worker up to its destructor, with the transport and the
\* block data staying: producers, worker, interrupt () and the destructor,
\* which the init thread may enter without having called interrupt ().
InitShutdown ==
  /\ pprev = ForkTree
  /\ haveData = [b \in Blocks |-> TRUE]
  /\ notifier = "ok"
  /\ tracked = Games
  /\ requests = ReorgRequests
  /\ randTokens = {"t1"}
  /\ callsLeft = MaxCalls
  /\ flipsLeft = MaxFlips
  /\ InitWorker

NextShutdown ==
  \/ \E t \in Threads : RpcBegin(t)
  \/ \E t \in Threads : RpcWalkStep(t)
  \/ \E t \in Threads : RpcResult(t)
  \/ \E t \in Threads : RpcEnqueueLock(t)
  \/ \E t \in Threads : RpcEnqueue(t)
  \/ InterruptLock
  \/ Interrupt
  \/ DestructorJoin
  \/ DestructorReturn
  \/ RunLock
  \/ RunLocked
  \/ RunWake
  \/ RunSpuriousWake
  \/ RunContinue
  \/ RunSend

\* Every thread that can take a step is scheduled in the end: the worker
\* thread, an RPC thread inside game_sendupdates, the init thread inside
\* interrupt () and at the return of join.  Nothing makes a client call
\* game_sendupdates, the init thread call interrupt () or the destructor,
\* or the condition variable wake the worker without a notify.
FairScheduling ==
  /\ WF_vars(RunLock)
  /\ WF_vars(RunLocked)
  /\ WF_vars(RunWake)
  /\ WF_vars(RunContinue)
  /\ WF_vars(RunSend)
  /\ WF_vars(Interrupt)
  /\ WF_vars(DestructorReturn)
  /\ \A t \in Threads :
       /\ WF_vars(RpcWalkStep(t))
       /\ WF_vars(RpcResult(t))
       /\ WF_vars(RpcEnqueueLock(t))
       /\ WF_vars(RpcEnqueue(t))

SpecShutdown == InitShutdown /\ [][NextShutdown]_vars /\ FairScheduling

\* ------------------------------------------------------------- the claims
Range(s) == {s[i] : i \in 1..Len(s)}

IsPrefix(s, t) == Len(s) <= Len(t) /\ s = SubSeq(t, 1, Len(s))

\* The place of x in the sequence s (0 when it is not there).
PosIn(s, x) ==
  IF x \in Range(s) THEN CHOOSE i \in 1..Len(s) : s[i] = x ELSE 0

NoDuplicates(s) == \A i, j \in 1..Len(s) : s[i] = s[j] => i = j

\* The SendUpdatesOneBlock calls made so far for the Work of call id.
LogOf(id) == SelectSeq(sendlog, LAMBDA e : e.id = id)

\* <<prefix, block>> of every entry of a part of the log.
Calls(log) == [i \in 1..Len(log) |-> <<log[i].prefix, log[i].pindex>>]

\* What a Work asks the worker to do: a detach call for every block of
\* its detach list, then an attach call for every block of its attach list.
Expected(w) ==
  [i \in 1..(Len(w.detach) + Len(w.attach)) |->
     IF i <= Len(w.detach)
       THEN <<PREFIX_DETACH, w.detach[i]>>
       ELSE <<PREFIX_ATTACH, w.attach[i - Len(w.detach)]>>]

\* C1: the worker thread leaves its run loop only with the queue empty and
\* interrupted set, and by then every Work that enqueue accepted has been
\* processed exactly once, with every detach and attach call of it made.
C1_DrainBeforeTerminate ==
  runner.pc = "done" =>
    /\ work = <<>>
    /\ interrupted
    /\ processed = accepted
    /\ NoDuplicates(processed)
    /\ \A id \in Range(accepted) : Calls(LogOf(id)) = Expected(built[id])

\* Two Works with blocks were accepted, then the worker drained them and
\* returned.
C1_Witness ==
  /\ runner.pc = "done"
  /\ Len(accepted) = 2
  /\ \A id \in Range(accepted) : Len(LogOf(id)) = 3

\* C2: Works are processed in the order in which their enqueue critical
\* sections completed, whichever threads produced them: the queue holds the
\* accepted Works not yet popped in that order, the finished ones are a
\* prefix of it, and in the log of calls every call for an earlier Work
\* comes before every call for a later one.
C2_FifoDispatch ==
  /\ IsPrefix(processed, accepted)
  /\ [i \in 1..Len(work) |-> work[i].id]
       = SubSeq(accepted, Len(accepted) - Len(work) + 1, Len(accepted))
  /\ \A i \in 1..Len(sendlog) : sendlog[i].id \in Range(accepted)
  /\ \A i, j \in 1..Len(sendlog) :
       i < j => PosIn(accepted, sendlog[i].id) <= PosIn(accepted, sendlog[j].id)
  /\ runner.pc = "send" =>
       /\ PosIn(accepted, runner.w.id) = Len(processed) + 1
       /\ \A i \in 1..Len(sendlog) :
            PosIn(accepted, sendlog[i].id) <= Len(processed) + 1

\* Two threads were in game_sendupdates at once, the call that started
\* second enqueued first, and both Works were sent in enqueue order.
C2_Witness ==
  /\ accepted = <<2, 1>>
  /\ processed = accepted
  /\ [i \in 1..Len(sendlog) |-> sendlog[i].id] = <<2, 2, 2, 1, 1, 1>>

\* C3: in the calls made for one Work every detach comes before every
\* attach; the detach calls follow the Work's detach list, which goes down
\* from the old tip, and the attach calls follow its attach list, which
\* goes up to the new tip.
C3_DetachThenAttach ==
  \A id \in Range(accepted) :
    LET log == LogOf(id)
        w == built[id]
    IN  /\ \A i, j \in 1..Len(log) :
              i < j =>
                /\ ~(log[i].prefix = PREFIX_ATTACH
                       /\ log[j].prefix = PREFIX_DETACH)
                /\ (log[i].prefix = PREFIX_DETACH
                       /\ log[j].prefix = PREFIX_DETACH)
                     => /\ PosIn(w.detach, log[i].pindex)
                             < PosIn(w.detach, log[j].pindex)
                        /\ Height(log[i].pindex) > Height(log[j].pindex)
                /\ (log[i].prefix = PREFIX_ATTACH
                       /\ log[j].prefix = PREFIX_ATTACH)
                     => /\ PosIn(w.attach, log[i].pindex)
                             < PosIn(w.attach, log[j].pindex)
                        /\ Height(log[i].pindex) < Height(log[j].pindex)
        /\ \A i \in 1..Len(log) :
              /\ log[i].prefix = PREFIX_DETACH
                   => PosIn(w.detach, log[i].pindex) = i
              /\ log[i].prefix = PREFIX_ATTACH
                   => PosIn(w.attach, log[i].pindex) = i - Len(w.detach)
        /\ (log # <<>> /\ w.detach # <<>>)
              => log[1] = [log[1] EXCEPT !.prefix = PREFIX_DETACH,
                                         !.pindex = asked[id][1]]
        /\ (id \in Range(processed) /\ w.attach # <<>>)
              => log[Len(log)] = [log[Len(log)] EXCEPT
                                    !.prefix = PREFIX_ATTACH,
                                    !.pindex = asked[id][2]]

\* A Work with two blocks to detach and two to attach was processed.
C3_Witness ==
  \E id \in Range(processed) :
    /\ Len(built[id].detach) = 2
    /\ Len(built[id].attach) = 2
    /\ [i \in 1..Len(LogOf(id)) |-> LogOf(id)[i].prefix]
         = <<PREFIX_DETACH, PREFIX_DETACH, PREFIX_ATTACH, PREFIX_ATTACH>>

\* C4: an enqueue that holds the lock with interrupted set leaves the queue
\* as it is, records no error for its caller, and the Work it was given is
\* never queued, popped, sent or processed.
C4_EnqueueAfterInterruptDrops ==
  /\ [][\A t \in Threads :
          (rpc[t].pc = "enqueueLocked" /\ interrupted /\ rpc'[t].pc = "idle")
            => /\ work' = work
               /\ rpc[t].id \in dropped'
               /\ result'[rpc[t].id].code = "ok"]_vars
  /\ [](\A id \in dropped :
          /\ result[id].code = "ok"
          /\ id \notin Range(accepted)
          /\ id \notin Range(processed)
          /\ LogOf(id) = <<>>
          /\ runner.w.id # id
          /\ \A i \in 1..Len(work) : work[i].id # id)

\* A Work was dropped while another one was still in the queue.
C4_Witness == dropped # {} /\ work # <<>> /\ interrupted

\* C5: a game_sendupdates call whose two hashes are known and that meets a
\* block without BLOCK_HAVE_DATA, be it fromblock, toblock or a block visited
\* by one of the two walks, throws RPC_DATABASE_ERROR there; no step of it changes the queue, and
\* the lists it had collected are neither queued nor handed to enqueue.
C5_FailFast ==
  /\ [][(nextId' = nextId + 1
           /\ asked'[nextId][1] \in Blocks /\ asked'[nextId][2] \in Blocks
           /\ (~haveData[asked'[nextId][1]] \/ ~haveData[asked'[nextId][2]]))
          => /\ result'[nextId].code = "RPC_DATABASE_ERROR"
             /\ rpc' = rpc
             /\ work' = work]_vars
  /\ [][\A t \in Threads :
          (/\ rpc[t].pc \in {"detach", "attach"}
           /\ rpc'[t] # rpc[t]
           /\ rpc[t].pindex \in Blocks
           /\ ~haveData[rpc[t].pindex])
            => /\ result'[rpc[t].id].code = "RPC_DATABASE_ERROR"
               /\ rpc'[t] = IdleRpc
               /\ work' = work
               /\ built' = built]_vars
  /\ [](\A id \in 1..MaxCalls :
          result[id].code = "RPC_DATABASE_ERROR"
            => /\ id \notin Range(accepted) \cup dropped
               /\ built[id] = NoWork
               /\ LogOf(id) = <<>>
               /\ \A i \in 1..Len(work) : work[i].id # id
               /\ \A t \in Threads : rpc[t].id # id)

\* The call from C to E failed in its walk at D, whose flag had been
\* cleared, while the Work of the other call was in the queue.
C5_Witness ==
  \E id \in 1..MaxCalls :
    /\ asked[id] = <<3, 5>>
    /\ result[id].code = "RPC_DATABASE_ERROR"
    /\ haveData = [b \in Blocks |-> b # 4]
    /\ work # <<>>

\* The blocks strictly between block x and its ancestor c: neither x nor c.
StrictlyBetween(x, c) == (Ancestors(x) \ Ancestors(c)) \ {x}

\* The blocks on the way from x back to its ancestor c, with x and without
\* c (none when x = c).
FromDownTo(x, c) == Ancestors(x) \ Ancestors(c)

ChildBeforeParent(s) == \A i \in 1..(Len(s) - 1) : s[i + 1] = pprev[s[i]]
ParentBeforeChild(s) == \A i \in 1..(Len(s) - 1) : s[i] = pprev[s[i + 1]]

\* The detach and attach lists of every Work handed to enqueue are, as
\* sets, between(X, C) and between(Y, C), for X the old tip, Y the new tip
\* and C their last common ancestor; they are ordered child before parent
\* and parent before child, and hold no block twice.
WalkLists(between(_, _)) ==
  \A id \in 1..MaxCalls :
    result[id].code = "ok" =>
      LET X == asked[id][1]
          Y == asked[id][2]
          C == LastCommonAncestor(X, Y)
          w == built[id]
      IN  /\ result[id].ancestor = C
          /\ Range(w.detach) = between(X, C)
          /\ Range(w.attach) = between(Y, C)
          /\ NoDuplicates(w.detach) /\ NoDuplicates(w.attach)
          /\ ChildBeforeParent(w.detach)
          /\ ParentBeforeChild(w.attach)
          /\ C \notin Range(w.detach) \cup Range(w.attach)

\* C6 as stated: detach holds exactly the blocks strictly between X and C,
\* child before parent, attach exactly those strictly between C and Y,
\* parent before child, and neither holds C.
C6_StrictlyBetween == WalkLists(StrictlyBetween)

\* C6, amended: detach holds exactly the blocks from X back to C, with X
\* and without C, child before parent; attach holds exactly the blocks from
\* Y back to C, with Y and without C, parent before child; neither holds C.
C6_FromTipToAncestor == WalkLists(FromDownTo)

\* A reorg with two blocks to detach and two to attach was handed to
\* enqueue.
C6_Witness ==
  \E id \in 1..MaxCalls :
    /\ result[id].code = "ok"
    /\ Len(built[id].detach) = 2
    /\ Len(built[id].attach) = 2

\* parent(parent(...(b))), n times.
RECURSIVE NthParent(_, _)
NthParent(b, n) == IF n = 0 THEN b ELSE NthParent(pprev[b], n - 1)

\* C7: the walk from a block collects it, its parent, its grandparent and
\* so on, without the ancestor.  So a successful call from old tip X to new
\* tip Y with last common ancestor C reports height(X) - height(C) detach
\* steps and height(Y) - height(C) attach steps, and the worker's calls for
\* its Work are detach for X first down to the child of C, then attach for
\* the child of C towards Y up to Y last.
C7_WalkOrderAndCounts ==
  \A id \in 1..MaxCalls :
    result[id].code = "ok" =>
      LET X == asked[id][1]
          Y == asked[id][2]
          C == result[id].ancestor
          nd == Height(X) - Height(C)
          na == Height(Y) - Height(C)
          detach == [i \in 1..nd |-> NthParent(X, i - 1)]
          attach == [i \in 1..na |-> NthParent(Y, na - i)]
          calls == [i \in 1..nd |-> <<PREFIX_DETACH, detach[i]>>]
                   \o [i \in 1..na |-> <<PREFIX_ATTACH, attach[i]>>]
      IN  /\ C = LastCommonAncestor(X, Y)
          /\ result[id].steps = [detach |-> nd, attach |-> na]
          /\ built[id].detach = detach
          /\ built[id].attach = attach
          /\ IsPrefix(Calls(LogOf(id)), calls)
          /\ id \in Range(processed) => Calls(LogOf(id)) = calls

\* The example: on A - B - C with the branch B - D - E the call from C
\* to E reported ancestor B, one detach and two attaches, and the
\* worker sent detach (C), attach (D), attach (E).
C7_Witness ==
  /\ pprev = ForkTree
  /\ \E id \in Range(processed) :
       /\ asked[id] = <<3, 5>>
       /\ result[id].ancestor = 2
       /\ result[id].steps = [detach |-> 1, attach |-> 2]
       /\ Calls(LogOf(id)) = <<<<PREFIX_DETACH, 3>>, <<PREFIX_ATTACH, 4>>,
                               <<PREFIX_ATTACH, 5>>>>
       /\ \A i \in 1..3 : LogOf(id)[i].sent

\* C8: in every call, from its walks on, old tip = ancestor gives an empty
\* detach list and new tip = ancestor an empty attach list; old tip = new
\* tip gives both lists empty, that block as the ancestor in the reply, and
\* no loop body of GetDetachSequence run (no flag check in a walk).
C8_DegenerateWalks ==
  /\ \A t \in Threads :
       LET r == rpc[t]
       IN  r.pc # "idle" =>
             /\ r.fromIndex = r.ancestor => r.w.detach = <<>>
             /\ r.toIndex = r.ancestor => r.w.attach = <<>>
             /\ r.fromIndex = r.toIndex =>
                  /\ r.ancestor = r.fromIndex
                  /\ Result(r).ancestor = r.fromIndex
                  /\ r.checks = 0
             /\ r.checks = Len(r.w.detach) + Len(r.w.attach)
  /\ \A id \in 1..MaxCalls :
       result[id].code = "ok" =>
         /\ asked[id][1] = result[id].ancestor => built[id].detach = <<>>
         /\ asked[id][2] = result[id].ancestor => built[id].attach = <<>>
         /\ asked[id][1] = asked[id][2] =>
              /\ result[id].ancestor = asked[id][1]
              /\ result[id].steps = [detach |-> 0, attach |-> 0]
              /\ built[id].detach = <<>> /\ built[id].attach = <<>>

\* A call with fromblock = toblock succeeded, on a block that is not the
\* root of the tree.
C8_Witness ==
  \E id \in 1..MaxCalls :
    /\ result[id].code = "ok"
    /\ asked[id][1] = asked[id][2]
    /\ pprev[asked[id][1]] # Null

\* How often x is in the sequence s.
TimesIn(s, x) == Cardinality({i \in 1..Len(s) : s[i] = x})

\* C9 as stated: every call that returned its reply has put exactly one
\* Work in the queue.
C9_SuccessQueuesOne ==
  \A id \in 1..MaxCalls : result[id].code = "ok" => TimesIn(accepted, id) = 1

\* C9, amended: a call that returns its reply has, in its enqueue, put
\* exactly one Work at the back of the queue if interrupted was not set
\* while it held the lock, and left the queue as it was if interrupted was
\* set; no call is accepted twice, and none is both accepted and dropped.
C9_SuccessQueuesOneUnlessInterrupted ==
  /\ [][\A t \in Threads :
          (rpc[t].pc = "enqueueLocked" /\ rpc'[t].pc = "idle")
            => /\ result'[rpc[t].id].code = "ok"
               /\ work' = IF interrupted THEN work ELSE Append(work, rpc[t].w)
               /\ TimesIn(accepted', rpc[t].id)
                    = IF interrupted THEN 0 ELSE 1
               /\ (rpc[t].id \in dropped') = interrupted]_vars
  /\ [](\A id \in 1..MaxCalls :
          result[id].code = "ok"
            => IF id \in dropped THEN TimesIn(accepted, id) = 0
                                 ELSE TimesIn(accepted, id) = 1)

\* One call was accepted and processed, a later one returned its reply
\* although its Work was dropped.
C9_Witness ==
  /\ Len(processed) = 1
  /\ \E id \in dropped : result[id].code = "ok"

\* The calls made so far for call id with the given prefix, and those of
\* them that sent their notification.
CallsMade(id, prefix) ==
  Len(SelectSeq(sendlog, LAMBDA e : e.id = id /\ e.prefix = prefix))
NotificationsSent(id, prefix) ==
  Len(SelectSeq(sendlog, LAMBDA e : e.id = id /\ e.prefix = prefix /\ e.sent))

\* Nothing more will be sent for call id: its Work was dropped or the
\* worker has finished it.
Settled(id) == id \in dropped \/ id \in Range(processed)

NothingQueued ==
  /\ work = <<>>
  /\ accepted = <<>>
  /\ dropped = {}
  /\ sendlog = <<>>
  /\ \A id \in 1..MaxCalls : built[id] = NoWork

\* No transport is configured: the notification interface is missing or
\* it has no game notifier.
NoTransport == notifier \in {"disabled", "unset"}

\* C11 as stated: with no notifier configured every call that has ended
\* threw RPC_MISC_ERROR, and nothing is queued.
C11_FailsTransportUnavailable ==
  NoTransport =>
    /\ NothingQueued
    /\ \A id \in 1..MaxCalls :
         result[id].code # "none" => result[id].code = "RPC_MISC_ERROR"

\* C11, amended: with no notifier configured no call succeeds and nothing
\* is queued.  A call with an unknown hash throws
\* RPC_INVALID_ADDRESS_OR_KEY and one that meets a block without data
\* RPC_DATABASE_ERROR, as they do with a notifier; only a call that passes
\* the lookups and both walks reaches the notifier check and throws
\* RPC_MISC_ERROR.
C11_NoTransportNothingQueued ==
  NoTransport =>
    /\ NothingQueued
    /\ \A t \in Threads : rpc[t].pc \notin {"enqueue", "enqueueLocked"}
    /\ \A id \in 1..MaxCalls :
         LET known == asked[id][1] \in Blocks /\ asked[id][2] \in Blocks
         IN  result[id].code # "none" =>
               /\ result[id].code \in {"RPC_INVALID_ADDRESS_OR_KEY",
                                       "RPC_DATABASE_ERROR", "RPC_MISC_ERROR"}
               /\ ~known <=> result[id].code = "RPC_INVALID_ADDRESS_OR_KEY"
               /\ (known /\ flipsLeft = MaxFlips)
                    => result[id].code = "RPC_MISC_ERROR"

\* With no notifier set, the call from C to E threw RPC_MISC_ERROR and a
\* call with an unknown fromblock threw RPC_INVALID_ADDRESS_OR_KEY.
C11_Witness ==
  /\ notifier = "unset"
  /\ \E id \in 1..MaxCalls :
       asked[id] = <<3, 5>> /\ result[id].code = "RPC_MISC_ERROR"
  /\ \E id \in 1..MaxCalls :
       /\ asked[id][1] = UnknownHash
       /\ result[id].code = "RPC_INVALID_ADDRESS_OR_KEY"

\* C12: a SendUpdatesOneBlock call whose block read fails sends nothing,
\* and that is all: the worker makes the remaining calls of the Work in
\* their order (so a finished Work has had every call of its lists made,
\* sent or not), goes on with the Works queued behind it, never leaves run
\* over it, and the reply the caller got stays as it was.
C12_SkipAndContinue ==
  /\ runner.pc # "terminate"
  /\ runner.pc = "send" =>
       Calls(LogOf(runner.w.id))
         = SubSeq(Expected(runner.w), 1, runner.next - 1)
  /\ \A id \in Range(processed) : Calls(LogOf(id)) = Expected(built[id])
  /\ \A id \in Range(accepted) : result[id] = Result([IdleRpc EXCEPT
                                        !.toBlock = asked[id][2],
                                        !.ancestor = result[id].ancestor,
                                        !.w = built[id]])
  /\ IsPrefix(processed, accepted)
  /\ runner.pc = "done" => processed = accepted

\* The read of D failed in the middle of the Work of the call from C to
\* E: its attach was skipped, the attach of E behind it was sent, and the
\* Work queued behind that one was processed as well.
C12_Witness ==
  /\ Len(processed) = 2
  /\ LET id == processed[1]
     IN  /\ Calls(LogOf(id)) = <<<<PREFIX_DETACH, 3>>, <<PREFIX_ATTACH, 4>>,
                                 <<PREFIX_ATTACH, 5>>>>
         /\ [i \in 1..3 |-> LogOf(id)[i].sent] = <<TRUE, FALSE, TRUE>>
         /\ result[id].code = "ok"
  /\ Len(LogOf(processed[2])) = 3

\* C13 as stated: whatever happens to the transport, also when the
\* notifier goes away after a Work was queued, no exception leaves the
\* worker thread: it makes every call of a Work it has popped, and it
\* leaves run only by the break, with the queue empty and interrupted set.
C13_TransportFailureNonFatal ==
  /\ runner.pc # "terminate"
  /\ \A id \in Range(processed) : Calls(LogOf(id)) = Expected(built[id])
  /\ runner.pc = "done" =>
       work = <<>> /\ interrupted /\ processed = accepted

\* The notifier went away after two Works were queued: the worker thread
\* was left by an exception in its first send, never interrupted, with the
\* other Work still in the queue.
C13_Witness ==
  /\ runner.pc = "terminate"
  /\ ~interrupted
  /\ Len(accepted) = 2
  /\ work # <<>>
  /\ processed = <<>>

\* C14: under fair scheduling and with every send returning, once
\* interrupted is set the worker thread returns from run in the end,
\* whatever is queued and whichever calls are still on their way to
\* enqueue; and the join of a destructor entered after interrupt ()
\* returns.
C14_ShutdownCompletes ==
  /\ interrupted ~> runner.pc = "done"
  /\ (interrupted /\ main = "join") ~> main = "destroyed"

\* The destructor has returned after interrupt (): one Work had been
\* queued and was processed, another came too late and was dropped.
C14_Witness ==
  /\ main = "destroyed"
  /\ Len(processed) = 1
  /\ Len(LogOf(processed[1])) = 3
  /\ dropped # {}

\* C15: a Work is the same in the queue and in the worker's hands as when
\* it was handed to enqueue, and every SendUpdatesOneBlock call made for
\* it carries the reqtoken of the reply of its call and the games of its
\* request, whatever trackedgames has done to the notifier's tracked games
\* in between.
C15_WorkCarriedUnchanged ==
  /\ \A i \in 1..Len(work) : work[i] = built[work[i].id]
  /\ runner.pc = "send" => runner.w = built[runner.w.id]
  /\ \A id \in Range(accepted) :
       /\ built[id].reqtoken = result[id].reqtoken
       /\ \E gameid \in Games : built[id].trackedGames = {gameid}
  /\ \A i \in 1..Len(sendlog) :
       LET e == sendlog[i]
       IN  /\ e.id \in Range(accepted)
           /\ e.reqtoken = result[e.id].reqtoken
           /\ e.trackedGames = built[e.id].trackedGames

\* Two calls got different tokens; the game was removed from the tracked
\* games while their Works waited, and all six notifications were sent
\* for it with the token of their call.
C15_Witness ==
  /\ Len(processed) = 2
  /\ result[1].reqtoken # result[2].reqtoken
  /\ tracked = {}
  /\ Len(sendlog) = 6
  /\ \A i \in 1..Len(sendlog) :
       /\ sendlog[i].sent
       /\ sendlog[i].trackedGames = {"huc"}
       /\ sendlog[i].reqtoken = result[sendlog[i].id].reqtoken

\* C16: enqueue and interrupt exclude each other by csWork, and an enqueue
\* has two outcomes, by whether interrupt () had the lock before it or
\* not: with interrupted still unset the Work is pushed at the back, with
\* it set the Work is dropped and the queue stays.  A pushed Work is
\* completely processed by the time the worker has left its loop, a
\* dropped one never is.
C16_EnqueueInterruptRace ==
  /\ [](/\ \A t \in Threads : rpc[t].pc = "enqueueLocked" <=> csWork = t
        /\ main = "interruptLocked" <=> csWork = Main)
  /\ [][\A t \in Threads :
          (rpc[t].pc = "enqueueLocked" /\ rpc'[t].pc = "idle")
            => IF interrupted
                 THEN /\ dropped' = dropped \cup {rpc[t].id}
                      /\ work' = work /\ accepted' = accepted
                 ELSE /\ accepted' = Append(accepted, rpc[t].id)
                      /\ work' = Append(work, rpc[t].w)
                      /\ dropped' = dropped]_vars
  /\ [][(~interrupted /\ interrupted') =>
          (main = "interruptLocked" /\ work' = work /\ accepted' = accepted)]_vars
  /\ [](/\ dropped \cap (Range(accepted) \cup Range(processed)) = {}
        /\ \A id \in dropped : LogOf(id) = <<>>
        /\ runner.pc = "done" =>
             \A id \in Range(accepted) :
               /\ id \in Range(processed)
               /\ Calls(LogOf(id)) = Expected(built[id]))

\* Both outcomes in one behaviour: the worker has left its loop, the Work
\* whose enqueue came before interrupt () was processed with all its
\* calls, the one whose enqueue came after it was dropped.
C16_Witness ==
  /\ runner.pc = "done"
  /\ Len(accepted) = 1
  /\ processed = accepted
  /\ Len(LogOf(accepted[1])) = 3
  /\ \E id \in dropped : built[id].detach # <<>>

\* C17: the worker holds csWork only inside the scope of its lock (after
\* taking it at the head of the loop or on return from the wait), never
\* while it is in SendUpdatesOneBlock or parked in the wait; and it enters
\* the wait only from that scope with the queue empty and interrupted not
\* set.
C17_SendsOutsideLock ==
  /\ [](/\ csWork = Runner <=> runner.pc \in {"locked", "woken"}
        /\ runner.pc = "send" => csWork \in {Free, Main} \cup Threads)
  /\ [][(runner.pc # "wait" /\ runner'.pc = "wait")
          => /\ runner.pc = "locked"
             /\ work = <<>> /\ ~interrupted
             /\ csWork = Runner /\ csWork' = Free]_vars
  /\ [][(runner.pc = "send" /\ runner' # runner)
          => csWork' = csWork /\ work' = work]_vars

\* The worker is about to make the third send of a Work while interrupted
\* is set and a producer holds csWork in its enqueue.
C17_Witness ==
  /\ runner.pc = "send"
  /\ runner.next = 3
  /\ interrupted
  /\ csWork \in Threads

\* C18: the worker is never parked in the wait, un-notified, with a Work in
\* the queue or with interrupted set; and under fair scheduling every Work
\* that enqueue has pushed is processed in the end, whether interrupt () is
\* ever called or not.
C18_NoLostWakeup ==
  /\ []((runner.pc = "wait" /\ Runner \in cvWork)
          => (work = <<>> /\ ~interrupted))
  /\ \A id \in 1..MaxCalls :
       (id \in Range(accepted)) ~> (id \in Range(processed))

\* interrupt () was never called; the worker was in the wait, was woken by
\* two enqueues, processed both Works and is parked again.
C18_Witness ==
  /\ main = "idle"
  /\ ~interrupted
  /\ Len(processed) = 2
  /\ Len(sendlog) = 6
  /\ runner.pc = "wait"
  /\ Runner \in cvWork

\* C19: on a block tree with one root no assert of game_sendupdates
\* fails, whatever happens to the BLOCK_HAVE_DATA flags meanwhile: the
\* ancestor of a call that got past its lookups is a block, and in each
\* walk the current block is a block that still has the ancestor above
\* it (or is about to be found equal to it), never nullptr.
C19_AssertsHold ==
  /\ ~Aborted
  /\ \A t \in Threads :
       LET r == rpc[t]
       IN  r.pc # "idle" =>
             /\ r.ancestor \in Blocks
             /\ r.ancestor = LastCommonAncestor(r.fromIndex, r.toIndex)
             /\ r.ancestor \in Ancestors(r.fromIndex) \cap Ancestors(r.toIndex)
             /\ r.pc \in {"detach", "attach"} =>
                  /\ r.pindex \in Blocks
                  /\ r.pindex # r.ancestor
                  /\ r.ancestor \in Ancestors(r.pindex)

\* A call is in its second walk, two blocks above the ancestor on each
\* side, and a block its first walk has checked and collected has lost its
\* data since.
C19_Witness ==
  LET r == rpc["rpc1"]
  IN  /\ r.pc = "attach"
      /\ Len(r.w.detach) = 2
      /\ Height(r.toIndex) - Height(r.ancestor) = 2
      /\ \E b \in Range(r.w.detach) : ~haveData[b]

\* C20: as long as interrupted is not set the worker thread has not
\* returned from run and no destructor has returned; a destructor entered
\* with interrupted unset stays in its join for ever, also once the queue
\* is drained.
C20_JoinWithoutInterruptBlocks ==
  /\ [](~interrupted => (runner.pc # "done" /\ main # "destroyed"))
  /\ [][(main = "join" /\ ~interrupted)
          => (main' = "join" /\ ~interrupted' /\ runner'.pc # "done")]_vars

\* The destructor was entered without interrupt (): both Works are
\* processed, the queue is empty, the worker is parked in the wait and the
\* init thread is in join.
C20_Witness ==
  /\ main = "join"
  /\ ~interrupted
  /\ work = <<>>
  /\ Len(processed) = 2
  /\ \A t \in Threads : rpc[t].pc = "idle"
  /\ runner.pc = "wait"
  /\ callsLeft = 0
====
